---- MODULE Spec2Model ----
(***************************************************************************)
(* A model of chuckpreslar/cartographer: the Cartographer type with its    *)
(* descriptor cache (fieldsToColumns, columnsToFields, typeCache,          *)
(* structTag), the discovery operations, and the row materializer Map.     *)
(*                                                                         *)
(* Spec     the descriptor cache under the discovery operations, each an   *)
(*          atomic call.                                                   *)
(* SpecMap  one call of Cartographer.Map, one action per statement that    *)
(*          talks to the cursor, the cache or a hook.                      *)
(* SpecSync one call of Cartographer.Sync, in the same steps.              *)
(* SpecRows one call of either Map or Sync.                                *)
(* SpecDiff one call of ModifiedColumnsValuesMapFor.                       *)
(* SpecConc concurrent ColumnsFor / FieldsFor calls, one action per        *)
(*          access to the shared maps.                                     *)
(* SpecCoerce  setFieldValue applied to one field and one source value.    *)
(***************************************************************************)
EXTENDS Integers, Sequences, FiniteSets, Bags, TLC

VARIABLES
  fieldsToColumns,  \* Cartographer.fieldsToColumns: type -> (field -> column)
  columnsToFields,  \* Cartographer.columnsToFields: type -> (column -> field)
  typeCache,        \* Cartographer.typeCache: type -> TRUE
  structTag,        \* Cartographer.structTag
  builtTag,         \* history: the annotation label each cached descriptor was built from
  last,             \* the last completed call of the cache API: operation, argument, results
  pc,               \* position of the Map call
  o,                \* Map's parameter o
  hooks,            \* Map's parameter hooks: the hooks' identities, in registration order
  columns,          \* Map's local columns
  rowNo,            \* rows the cursor has yielded so far (Next calls that returned true)
  values,           \* Map's local values: the current row buffer
  replica,          \* Map's local replica (the struct it points to)
  hookIdx,          \* CreateReplica's loop position over hooks
  results,          \* Map's named result results
  ret,              \* what Map returned: results and err, or a panic
  trace,            \* history: the cursor, cache and hook calls Map has made
  record,           \* the caller's struct that Sync's parameter o points to
  procs             \* the concurrent callers of the cache: position and locals of each

cacheVars == <<fieldsToColumns, columnsToFields, typeCache, structTag, builtTag>>
mapVars == <<pc, o, hooks, columns, rowNo, values, replica, hookIdx, results, ret, trace,
             record, procs>>
vars == <<fieldsToColumns, columnsToFields, typeCache, structTag, builtTag, last,
          pc, o, hooks, columns, rowNo, values, replica, hookIdx, results, ret, trace,
          record, procs>>

-----------------------------------------------------------------------------
(* Bounds *)

\* deepest pointer nesting of an argument (T, *T, **T)
MaxPtr == 2
\* most rows a cursor yields
MaxRows == 2
\* most hooks passed to Map
MaxHooks == 2
\* most columns of a cursor
MaxCols == 2
\* most goroutines calling into one Cartographer at a time
MaxProcs == 2

-----------------------------------------------------------------------------
(* Record types: the inputs of reflect.  A field is its name, its          *)
(* reflect.Kind, whether it is exported, and its struct tag.               *)

Field(name, kind, exported, db, json) ==
  [name |-> name, kind |-> kind, exported |-> exported, tags |-> [db |-> db, json |-> json]]

StructTypes == {"faker", "person", "ledger", "account"}
OtherTypes == {"number"}
TypeNames == StructTypes \cup OtherTypes

\* reflect.Type.Field(i), i = 1..NumField()
Fields(t) ==
  CASE t = "faker"   -> << Field("Id", "Int", TRUE, "id", "ident") >>
    [] t = "person"  -> << Field("Name", "String", TRUE, "name", "name"),
                           Field("Score", "Float64", TRUE, "score", ""),
                           Field("Nick", "String", TRUE, "", ""),
                           Field("secret", "Int", FALSE, "secret", "") >>
    [] t = "ledger"  -> << Field("Debit", "Int", TRUE, "amount", ""),
                           Field("Credit", "Int", TRUE, "amount", "credit"),
                           Field("Total", "Int64", TRUE, "total", "") >>
    [] t = "account" -> << Field("Active", "Bool", TRUE, "active", ""),
                           Field("Owner", "Struct", TRUE, "owner", "") >>
    [] OTHER         -> << >>

\* reflect.Type.Kind() of the named type itself
BaseKind(t) == IF t \in StructTypes THEN "Struct" ELSE "Int"

\* an argument passed as interface{}: a value of type t behind ptr pointers
Objects == [typ : TypeNames, ptr : 0..MaxPtr]

\* the annotation labels Initialize and SetStructTag are given
StructTags == {"", "db", "json"}

\* reflect.StructTag.Get: the value under key, "" when the tag has no such key
TagGet(tags, key) == IF key \in DOMAIN tags THEN tags[key] ELSE ""

-----------------------------------------------------------------------------
(* Go maps *)

EmptyMap == [k \in {} |-> ""]
Put(m, k, v) == [x \in (DOMAIN m) \cup {k} |-> IF x = k THEN v ELSE m[x]]
\* m[k] of a Go map[string]string: the zero value "" for a missing key
Lookup(m, k) == IF k \in DOMAIN m THEN m[k] ELSE ""

\* the slice that `for key, _ := range m { keys = append(keys, key) }` builds: Go
\* fixes no order for the iteration over a map, so the slice is taken as the bag of
\* its elements
Keys(m) == SetToBag(DOMAIN m)

-----------------------------------------------------------------------------
(* Errors *)

ErrNil == "nil"
ErrNotStruct == "Expected a struct to be passed"
ErrSetField == "Failed to set field"
ErrColumns == "rows.Columns failed"
ErrScan == "rows.Scan failed"
ErrHook == "hook failed"

-----------------------------------------------------------------------------
(* Values.  A value is its Go type and a number standing for its content.  *)
(* Texts are numbered: 0 is "", and FormatBad gives the text fmt prints    *)
(* for an operand the verb does not fit.                                   *)

Val(t, v) == [t |-> t, v |-> v]
Nil == Val("nil", 0)

\* the Go type of a field of the given reflect.Kind
GoType(kind) ==
  CASE kind = "String"  -> "string"
    [] kind = "Int"     -> "int"
    [] kind = "Int64"   -> "int64"
    [] kind = "Float64" -> "float64"
    [] kind = "Bool"    -> "bool"
    [] kind = "Struct"  -> "struct"

\* reflect.Zero of a field
Zero(kind) == Val(GoType(kind), 0)

\* the names of the fields of a struct type
FieldNames(t) == {Fields(t)[i].name : i \in 1..Len(Fields(t))}

\* reflect.Type.FieldByName, for a name the type has
FieldByName(t, n) == Fields(t)[CHOOSE i \in 1..Len(Fields(t)) : Fields(t)[i].name = n]

\* reflect.New(typ).Elem(): every field at its zero value
ZeroStruct(t) == [n \in FieldNames(t) |-> Zero(FieldByName(t, n).kind)]

-----------------------------------------------------------------------------
(* The descriptor cache *)

Cache == [f2c |-> fieldsToColumns, c2f |-> columnsToFields, tc |-> typeCache, bt |-> builtTag]

\* Deref with a loop in place of the if: every pointer level is removed
DerefAll(obj) == [obj EXCEPT !.ptr = 0]

\* the dereference of reflect.TypeOf(o): one pointer level is removed, if there is one
Deref(obj) == IF obj.ptr > 0 THEN [obj EXCEPT !.ptr = obj.ptr - 1] ELSE obj

\* reflect.Struct == typ.Kind()
IsStruct(ty) == ty.ptr = 0 /\ BaseKind(ty.typ) = "Struct"

\* readTags without the test `0 != len(column)`: a field with an empty annotation
\* is entered too
RECURSIVE readTagsKeepEmpty(_, _, _, _)
readTagsKeepEmpty(fields, i, tag, d) ==
  IF i > Len(fields) THEN d
  ELSE LET name == fields[i].name
           column == TagGet(fields[i].tags, tag)
       IN  readTagsKeepEmpty(fields, i + 1, tag,
             [c2f |-> Put(d.c2f, column, name), f2c |-> Put(d.f2c, name, column)])

\* the loop over the fields of a type that fills both maps of its descriptor
RECURSIVE readTags(_, _, _, _)
readTags(fields, i, tag, d) ==
  IF i > Len(fields) THEN d
  ELSE LET name == fields[i].name
           column == TagGet(fields[i].tags, tag)
       IN  readTags(fields, i + 1, tag,
             IF column # ""
               THEN [c2f |-> Put(d.c2f, column, name), f2c |-> Put(d.f2c, name, column)]
               ELSE d)

\* withDescriptor writing into fresh outer maps: the descriptors of the other types
\* are dropped
withDescriptorAlone(c, typ, tag) ==
  LET d == readTags(Fields(typ), 1, tag, [c2f |-> EmptyMap, f2c |-> EmptyMap])
  IN  [f2c |-> Put(EmptyMap, typ, d.f2c),
       c2f |-> Put(EmptyMap, typ, d.c2f),
       tc  |-> Put(EmptyMap, typ, TRUE),
       bt  |-> Put(EmptyMap, typ, tag)]

\* the cache with a descriptor for typ freshly built from the label tag
withDescriptor(c, typ, tag) ==
  LET d == readTags(Fields(typ), 1, tag, [c2f |-> EmptyMap, f2c |-> EmptyMap])
  IN  [f2c |-> Put(c.f2c, typ, d.f2c),
       c2f |-> Put(c.c2f, typ, d.c2f),
       tc  |-> Put(c.tc, typ, TRUE),
       bt  |-> Put(c.bt, typ, tag)]

\* DiscoverType without the test `!cached`: the descriptor is built on every call
DiscoverTypeAlwaysBuilds(obj, c, tag) ==
  LET ty == Deref(obj)
  IN  IF ~IsStruct(ty)
        THEN [typ |-> ty, err |-> ErrNotStruct, cache |-> c]
        ELSE [typ |-> ty, err |-> ErrNil, cache |-> withDescriptor(c, ty.typ, tag)]

\* Cartographer.DiscoverType: the type, the error and the cache it leaves
DiscoverType(obj, c, tag) ==
  LET ty == Deref(obj)
  IN  IF ~IsStruct(ty)
        THEN [typ |-> ty, err |-> ErrNotStruct, cache |-> c]
        ELSE IF ty.typ \in DOMAIN c.tc
               THEN [typ |-> ty, err |-> ErrNil, cache |-> c]
               ELSE [typ |-> ty, err |-> ErrNil, cache |-> withDescriptor(c, ty.typ, tag)]

\* Cartographer.GetStructTag
GetStructTag(tag) == IF tag = "" THEN "db" ELSE tag

\* discoverType: the type and the error, no caching
discoverType(obj) ==
  LET ty == Deref(obj)
  IN  IF ~IsStruct(ty) THEN [typ |-> ty, err |-> ErrNotStruct]
                       ELSE [typ |-> ty, err |-> ErrNil]

\* cacheType behind the test `!cached` of the on-demand callers: a descriptor that is
\* cached already is kept
cacheTypeIfAbsent(c, typ, tag) ==
  IF typ \in DOMAIN c.tc THEN c ELSE withDescriptor(c, typ, GetStructTag(tag))

\* Cartographer.cacheType: the descriptor of typ is built anew, cached or not
cacheType(c, typ, tag) == withDescriptor(c, typ, GetStructTag(tag))

\* Cartographer.Register: the error and the cache it leaves
Register(obj, c, tag) ==
  LET d == discoverType(obj)
  IN  IF d.err # ErrNil THEN [err |-> d.err, cache |-> c]
                         ELSE [err |-> ErrNil, cache |-> cacheType(c, d.typ.typ, tag)]

\* Cartographer.FieldValueMapFor's loop: the value of every descriptor field of the
\* struct; reflect.Value.Interface panics on a field that is not exported
fieldValues(typ, item, f2c) ==
  IF \E n \in DOMAIN f2c : ~FieldByName(typ, n).exported
        THEN [panic |-> TRUE, values |-> EmptyMap]
        ELSE [panic |-> FALSE, values |-> [n \in DOMAIN f2c |-> item[n]]]

NoCall == [op |-> "none", obj |-> [typ |-> "number", ptr |-> 0], err |-> ErrNil,
           out |-> << >>, panic |-> FALSE]
Called(op, obj, err, out, panic) ==
  [op |-> op, obj |-> obj, err |-> err, out |-> out, panic |-> panic]

setCache(c) ==
  /\ fieldsToColumns' = c.f2c
  /\ columnsToFields' = c.c2f
  /\ typeCache' = c.tc
  /\ builtTag' = c.bt

-----------------------------------------------------------------------------
(* Value coercion *)

\* the text fmt.Sprintf("%s", v) prints for an operand that is neither a string nor
\* a byte slice, "%!s(int64=1)": a text of its own for every such value
FormatBad(value) ==
  LET code == CASE value.t = "nil"     -> 1
                [] value.t = "int"     -> 2
                [] value.t = "int8"    -> 3
                [] value.t = "int16"   -> 4
                [] value.t = "int32"   -> 5
                [] value.t = "int64"   -> 6
                [] value.t = "float32" -> 7
                [] value.t = "float64" -> 8
                [] value.t = "bool"    -> 9
                [] OTHER               -> 10
  IN  1000 + 100 * code + value.v

\* the texts that are base-10 floating-point literals, and the number each denotes
IsFloatLiteral(text) == text \in 1..9

\* parseString: fmt.Sprintf("%s", o)
parseString(value) ==
  IF value.t \in {"string", "[]uint8"} THEN [panic |-> FALSE, v |-> value.v]
                                       ELSE [panic |-> FALSE, v |-> FormatBad(value)]

\* parseInt: int, int16 and int32 are converted, anything else is asserted to be int64
parseInt(value) ==
  IF value.t \in {"int", "int16", "int32"} THEN [panic |-> FALSE, v |-> value.v]
  ELSE IF value.t = "int64" THEN [panic |-> FALSE, v |-> value.v]
  ELSE [panic |-> TRUE, v |-> 0]

\* parseFloat: bytes are parsed and the parse error dropped, float32 is converted,
\* anything else is asserted to be float64
parseFloat(value) ==
  IF value.t = "[]uint8"
    THEN [panic |-> FALSE, v |-> IF IsFloatLiteral(value.v) THEN value.v ELSE 0]
  ELSE IF value.t \in {"float32", "float64"} THEN [panic |-> FALSE, v |-> value.v]
  ELSE [panic |-> TRUE, v |-> 0]

\* parseBool: o.(bool)
parseBool(value) ==
  IF value.t = "bool" THEN [panic |-> FALSE, v |-> value.v] ELSE [panic |-> TRUE, v |-> 0]

\* parseStruct and reflect.Value.Set: the value must be assignable to the field
parseStruct(value) ==
  IF value.t = "struct" THEN [panic |-> FALSE, v |-> value.v] ELSE [panic |-> TRUE, v |-> 0]

\* the zero reflect.Value that FieldByName returns for a name the struct does not have
NoField == [name |-> "", kind |-> "Invalid", exported |-> FALSE, tags |-> [db |-> "", json |-> ""]]

\* reflect.Value.FieldByName on the replica
FieldOf(typ, name) == IF name \in FieldNames(typ) THEN FieldByName(typ, name) ELSE NoField

\* reflect.Value.CanSet of a field of the replica
CanSet(field) == field.kind # "Invalid" /\ field.exported

\* the loop body of the earlier Map (`if field.CanSet() { switch ... }` with no
\* else): a field that cannot be set is passed over without an error
setNonNilSkipUnsettable(element, field, value) ==
  IF ~CanSet(field) THEN [status |-> "ok", element |-> element]
  ELSE LET p == CASE field.kind = "String"  -> parseString(value)
                  [] field.kind = "Int"     -> parseInt(value)
                  [] field.kind = "Float64" -> parseFloat(value)
                  [] field.kind = "Bool"    -> parseBool(value)
                  [] field.kind = "Struct"  -> parseStruct(value)
                  [] OTHER                  -> [panic |-> FALSE, v |-> element[field.name].v]
       IN  IF p.panic
             THEN [status |-> "panic", element |-> element]
             ELSE [status |-> "ok",
                   element |-> [element EXCEPT ![field.name] = Val(GoType(field.kind), p.v)]]

\* setFieldValue past its nil check: the settability check and the switch on the
\* field's kind, which has no case for any other kind
setNonNil(element, field, value) ==
  IF ~CanSet(field) THEN [status |-> "err", element |-> element]
  ELSE LET p == CASE field.kind = "String"  -> parseString(value)
                  [] field.kind = "Int"     -> parseInt(value)
                  [] field.kind = "Float64" -> parseFloat(value)
                  [] field.kind = "Bool"    -> parseBool(value)
                  [] field.kind = "Struct"  -> parseStruct(value)
                  [] OTHER                  -> [panic |-> FALSE, v |-> element[field.name].v]
       IN  IF p.panic
             THEN [status |-> "panic", element |-> element]
             ELSE [status |-> "ok",
                   element |-> [element EXCEPT ![field.name] = Val(GoType(field.kind), p.v)]]

\* setFieldValue without the test `nil == value`, as in the inline switch of the
\* earlier revisions
setFieldValueNoNilCheck(element, field, value) == setNonNil(element, field, value)

\* setFieldValue: the status ("ok", "err", "panic"), and the struct it leaves
setFieldValue(element, field, value) ==
  IF value = Nil THEN [status |-> "ok", element |-> element]
                 ELSE setNonNil(element, field, value)

\* the loop of Map over the row buffer: every value is set on the field its column
\* belongs to, up to the first error or panic (at: the index it stopped at, or 0)
RECURSIVE setFields(_, _, _, _, _, _)
setFields(typ, c2f, cols, vals, index, element) ==
  IF index > Len(vals) THEN [status |-> "ok", element |-> element, at |-> 0]
  ELSE LET field == FieldOf(typ, Lookup(c2f, cols[index]))
           r == setFieldValue(element, field, vals[index])
       IN  IF r.status # "ok" THEN [status |-> r.status, element |-> r.element, at |-> index]
           ELSE setFields(typ, c2f, cols, vals, index + 1, r.element)

-----------------------------------------------------------------------------
(* The cache API, one action per call *)

\* a value the caller has put into a field of the kind, other than its zero value
CallerValue(kind) == Val(GoType(kind), IF kind = "Bool" THEN 1 ELSE 7)

\* the struct the caller passes: fresh, or with every field set by the caller
CallerRecords(obj) ==
  IF obj.typ \in StructTypes
    THEN {ZeroStruct(obj.typ),
          [n \in FieldNames(obj.typ) |-> CallerValue(FieldByName(obj.typ, n).kind)]}
    ELSE {EmptyMap}

\* Initialize(structTag)
Init ==
  /\ fieldsToColumns = EmptyMap
  /\ columnsToFields = EmptyMap
  /\ typeCache = EmptyMap
  /\ structTag \in StructTags
  /\ builtTag = EmptyMap
  /\ last = NoCall
  /\ pc = "idle"
  /\ o = [typ |-> "number", ptr |-> 0]
  /\ hooks = << >>
  /\ columns = << >>
  /\ rowNo = 0
  /\ values = << >>
  /\ replica = EmptyMap
  /\ hookIdx = 0
  /\ results = << >>
  /\ ret = [returned |-> FALSE, panic |-> FALSE, results |-> << >>, err |-> ErrNil]
  /\ trace = << >>
  /\ record = EmptyMap
  /\ procs = << >>

CallDiscoverType ==
  /\ pc = "idle"
  /\ \E obj \in Objects :
      \E d \in {DiscoverType(obj, Cache, structTag)} :
        /\ setCache(d.cache)
        /\ last' = Called("DiscoverType", obj, d.err, << d.typ >>, FALSE)
        /\ UNCHANGED <<structTag, mapVars>>

CallColumnsFor ==
  /\ pc = "idle"
  /\ \E obj \in Objects :
      \E d \in {DiscoverType(obj, Cache, structTag)} :
        /\ setCache(d.cache)
        /\ IF d.err # ErrNil
             THEN last' = Called("ColumnsFor", obj, d.err, EmptyBag, FALSE)
             ELSE last' = Called("ColumnsFor", obj, ErrNil, Keys(d.cache.c2f[d.typ.typ]), FALSE)
        /\ UNCHANGED <<structTag, mapVars>>

CallFieldsFor ==
  /\ pc = "idle"
  /\ \E obj \in Objects :
      \E d \in {DiscoverType(obj, Cache, structTag)} :
        /\ setCache(d.cache)
        /\ IF d.err # ErrNil
             THEN last' = Called("FieldsFor", obj, d.err, EmptyBag, FALSE)
             ELSE last' = Called("FieldsFor", obj, ErrNil, Keys(d.cache.f2c[d.typ.typ]), FALSE)
        /\ UNCHANGED <<structTag, mapVars>>

CallFieldValueMapFor ==
  /\ pc = "idle"
  /\ \E obj \in Objects :
      \E d \in {DiscoverType(obj, Cache, structTag)} :
        /\ setCache(d.cache)
        /\ IF d.err # ErrNil
             THEN last' = Called("FieldValueMapFor", obj, d.err, EmptyMap, FALSE)
             ELSE \E item \in {[n \in FieldNames(d.typ.typ) |->
                                   CallerValue(FieldByName(d.typ.typ, n).kind)]} :
                    \E r \in {fieldValues(d.typ.typ, item, d.cache.f2c[d.typ.typ])} :
                      last' = Called("FieldValueMapFor", obj, ErrNil,
                                     [item |-> item, values |-> r.values], r.panic)
        /\ UNCHANGED <<structTag, mapVars>>

CallRegister ==
  /\ pc = "idle"
  /\ \E obj \in Objects :
      \E r \in {Register(obj, Cache, structTag)} :
        /\ setCache(r.cache)
        /\ last' = Called("Register", obj, r.err, << >>, FALSE)
        /\ UNCHANGED <<structTag, mapVars>>

CallSetStructTag ==
  \E tag \in StructTags :
    /\ pc = "idle"
    /\ structTag' = tag
    /\ last' = Called("SetStructTag", [typ |-> "number", ptr |-> 0], ErrNil, << tag >>, FALSE)
    /\ UNCHANGED <<fieldsToColumns, columnsToFields, typeCache, builtTag, mapVars>>

Next ==
  \/ CallDiscoverType
  \/ CallColumnsFor
  \/ CallFieldsFor
  \/ CallFieldValueMapFor
  \/ CallRegister
  \/ CallSetStructTag

Spec == Init /\ [][Next]_vars

-----------------------------------------------------------------------------
(* The cursor: what rows.Columns, rows.Next and rows.Scan may answer *)

\* the column names a query for records of the type may select
CursorColumns(obj) ==
  {"extra"} \cup ({TagGet(Fields(obj.typ)[i].tags, l) :
                     i \in 1..Len(Fields(obj.typ)), l \in {"db", "json"}} \ {""})

\* rows.Columns(): up to MaxCols of these names, each at most once, in any order
ColumnLists(obj) ==
  UNION {{cols \in [1..n -> CursorColumns(obj)] :
            \A i, j \in 1..n : cols[i] = cols[j] => i = j} : n \in 0..MaxCols}

\* the values the data source may hold in a column
SlotValues(column) ==
  CASE column = "id" -> {Nil, Val("int64", 1), Val("[]uint8", 1)}
    [] column \in {"amount", "ident", "credit", "total", "secret"} -> {Nil, Val("int64", 1)}
    [] column = "name"   -> {Nil, Val("string", 11)}
    [] column = "score"  -> {Nil, Val("float64", 2), Val("[]uint8", 12)}
    [] column = "active" -> {Nil, Val("bool", 1)}
    [] column = "owner"  -> {Nil, Val("struct", 1)}
    [] OTHER             -> {Nil, Val("string", 11)}

\* what rows.Scan may leave in the buffer for these columns
Rows(cols) == {r \in [1..Len(cols) -> UNION {SlotValues(cols[i]) : i \in 1..Len(cols)}] :
                 \A i \in 1..Len(cols) : r[i] \in SlotValues(cols[i])}

-----------------------------------------------------------------------------
(* Cartographer.Map, step by step *)

NoReturn == [returned |-> FALSE, panic |-> FALSE, results |-> << >>, err |-> ErrNil]
Return(res, err) == [returned |-> TRUE, panic |-> FALSE, results |-> res, err |-> err]
Panic == [returned |-> FALSE, panic |-> TRUE, results |-> << >>, err |-> ErrNil]

\* an entry of trace: the call, the row it belongs to, its argument (the hook, or the
\* buffer index Map stopped at) and the data it saw (the row scanned, the replica given)
Event(ev, row, arg, seen) == [ev |-> ev, row |-> row, arg |-> arg, seen |-> seen]

\* Map is entered and calls rows.Columns()
MapColumns ==
  \E obj \in Objects, n \in 0..MaxHooks, fails \in BOOLEAN :
    /\ pc = "idle"
    /\ o' = obj
    /\ hooks' = [i \in 1..n |-> i]
    /\ trace' = Append(trace, Event("Columns", 0, 0, << >>))
    /\ IF fails
         THEN /\ ret' = Return(results, ErrColumns)
              /\ pc' = "done"
              /\ UNCHANGED columns
         ELSE /\ \E cols \in ColumnLists(obj) : columns' = cols
              /\ pc' = "next"
              /\ UNCHANGED ret
    /\ UNCHANGED <<cacheVars, last, record, procs, rowNo, values, replica, hookIdx, results>>

\* the loop condition rows.Next()
MapNext ==
  /\ pc = "next"
  /\ \/ /\ rowNo < MaxRows
        /\ rowNo' = rowNo + 1
        /\ trace' = Append(trace, Event("Next", rowNo + 1, 0, << >>))
        /\ pc' = "scan"
        /\ UNCHANGED ret
     \/ /\ trace' = Append(trace, Event("NextEnd", rowNo, 0, << >>))
        /\ ret' = Return(results, ErrNil)
        /\ pc' = "done"
        /\ UNCHANGED rowNo
  /\ UNCHANGED <<cacheVars, last, record, procs, o, hooks, columns, values, replica, hookIdx, results>>

\* populatedRowValues: rows.Scan into a fresh buffer
MapScan ==
  /\ pc = "scan"
  /\ \/ /\ \E row \in Rows(columns) :
             /\ values' = row
             /\ trace' = Append(trace, Event("Scan", rowNo, 0, row))
        /\ pc' = "replica"
        /\ UNCHANGED ret
     \/ /\ trace' = Append(trace, Event("ScanErr", rowNo, 0, << >>))
        /\ ret' = Return(results, ErrScan)
        /\ pc' = "done"
        /\ UNCHANGED values
  /\ UNCHANGED <<cacheVars, last, record, procs, o, hooks, columns, rowNo, replica, hookIdx, results>>

\* CreateReplica up to its loop over the hooks: DiscoverType and reflect.New
MapCreateReplica ==
  /\ pc = "replica"
  /\ \E d \in {DiscoverType(o, Cache, structTag)} :
      /\ trace' = Append(trace, Event("DiscoverType", rowNo, 0, << >>))
      /\ setCache(d.cache)
      /\ IF d.err # ErrNil
           THEN /\ ret' = Return(results, d.err)
                /\ pc' = "done"
                /\ UNCHANGED <<replica, hookIdx>>
           ELSE /\ replica' = ZeroStruct(d.typ.typ)
                /\ hookIdx' = 1
                /\ pc' = IF Len(hooks) = 0 THEN "set" ELSE "hook"
                /\ UNCHANGED ret
      /\ UNCHANGED <<structTag, last, record, procs, o, hooks, columns, rowNo, values, results>>

\* one turn of CreateReplica's loop: the hook is given the replica and may fail
MapHook ==
  /\ pc = "hook"
  /\ \/ /\ trace' = Append(trace, Event("Hook", rowNo, hooks[hookIdx], replica))
        /\ hookIdx' = hookIdx + 1
        /\ pc' = IF hookIdx = Len(hooks) THEN "set" ELSE "hook"
        /\ UNCHANGED ret
     \/ /\ trace' = Append(trace, Event("HookErr", rowNo, hooks[hookIdx], replica))
        /\ ret' = Return(results, ErrHook)
        /\ pc' = "done"
        /\ UNCHANGED hookIdx
  /\ UNCHANGED <<cacheVars, last, record, procs, o, hooks, columns, rowNo, values, replica, results>>

\* the loop over the row buffer, and the append of the replica to results
MapSetFields ==
  /\ pc = "set"
  /\ \E r \in {setFields(Deref(o).typ, columnsToFields[Deref(o).typ],
                         columns, values, 1, replica)} :
      /\ trace' = Append(trace, Event("Set", rowNo, r.at, << >>))
      /\ replica' = r.element
      /\ CASE r.status = "ok" ->
                /\ results' = Append(results, r.element)
                /\ pc' = "next"
                /\ UNCHANGED ret
           [] r.status = "err" ->
                /\ ret' = Return(results, ErrSetField)
                /\ pc' = "done"
                /\ UNCHANGED results
           [] OTHER ->
                /\ ret' = Panic
                /\ pc' = "done"
                /\ UNCHANGED results
      /\ UNCHANGED <<cacheVars, last, record, procs, o, hooks, columns, rowNo, values, hookIdx>>

NextMap ==
  \/ MapColumns
  \/ MapNext
  \/ MapScan
  \/ MapCreateReplica
  \/ MapHook
  \/ MapSetFields

SpecMap == Init /\ [][NextMap]_vars

-----------------------------------------------------------------------------
(* Properties of Map, checked under SpecMap *)

\* the rows the cursor has delivered, in cursor order
ScannedRows ==
  LET scans == SelectSeq(trace, LAMBDA e : e.ev = "Scan")
  IN  [i \in 1..Len(scans) |-> scans[i].seen]

\* the hook calls made for row i, in the order they were made
HookCalls(i) == SelectSeq(trace, LAMBDA e : e.ev \in {"Hook", "HookErr"} /\ e.row = i)

MapReturned == pc = "done" /\ ret.returned
MapSucceeded == MapReturned /\ ret.err = "nil"
MapFailed == MapReturned /\ ret.err # "nil"

\* the fields of the sample type that carry an annotation under the configured label
AnnotatedFields == {i \in 1..Len(Fields(o.typ)) : TagGet(Fields(o.typ)[i].tags, structTag) # ""}

\* section 4.3: the source values a target kind accepts
Coercible(kind, value) ==
  CASE kind = "String"           -> TRUE
    [] kind \in {"Int", "Int64"} -> value.t \in {"int", "int8", "int16", "int32", "int64"}
    [] kind = "Float64"          -> \/ value.t \in {"float32", "float64"}
                                    \/ value.t \in {"string", "[]uint8"} /\ value.v \in 1..9
    [] kind = "Bool"             -> value.t = "bool"
    [] kind = "Struct"           -> value.t = "struct"
    [] OTHER                     -> FALSE

\* section 4.3: the value a field of the kind holds after an accepted source value
Coerced(kind, value) ==
  CASE kind = "String" /\ value.t \notin {"string", "[]uint8"} ->
         Val("string", 1000 + 100 * (CASE value.t = "int64" -> 6 [] value.t = "float64" -> 8
                                        [] value.t = "bool" -> 9 [] OTHER -> 10) + value.v)
    [] kind = "Int"     -> Val("int", value.v)
    [] kind = "Int64"   -> Val("int64", value.v)
    [] kind = "Float64" -> Val("float64", value.v)
    [] kind = "Bool"    -> Val("bool", value.v)
    [] kind = "Struct"  -> Val("struct", value.v)
    [] OTHER            -> Val("string", value.v)

\* C1: a successful Map returns one instance per cursor row, in cursor order, and in
\* each instance every annotated field whose column the cursor lists holds the
\* coerced value of that row's slot (its zero value for a null slot).
C1_MapBuildsEveryRow ==
  MapSucceeded =>
    /\ Len(ret.results) = Len(ScannedRows)
    /\ \A i \in 1..Len(ret.results), j \in AnnotatedFields, k \in 1..Len(columns) :
         LET field == Fields(o.typ)[j]
             value == ScannedRows[i][k]
         IN  columns[k] = TagGet(field.tags, structTag) =>
               /\ value = Nil => ret.results[i][field.name] = Zero(field.kind)
               /\ value # Nil /\ Coercible(field.kind, value) =>
                    ret.results[i][field.name] = Coerced(field.kind, value)

\* C2: when Map fails on Columns, on Scan or on setting a field, it returns the error
\* with an empty result list, never with instances of earlier rows.
C2_NoResultsWithError ==
  MapReturned /\ ret.err \in {ErrColumns, ErrScan, ErrSetField} => ret.results = << >>

\* C3: when a hook fails, Map stops there (the failing hook call is the last call it
\* makes) and returns the hook's error with no results.
C3_HookErrorNoResults ==
  MapReturned /\ ret.err = ErrHook =>
    /\ trace[Len(trace)].ev = "HookErr"
    /\ ret.results = << >>

\* C4: for every row Map materializes, every hook is called exactly once, in
\* registration order, and is given the instance with the row's values applied.
C4_HooksSeePopulatedRow ==
  \A i \in 1..Len(results) :
    /\ Len(HookCalls(i)) = Len(hooks)
    /\ \A j \in 1..Len(hooks) :
         /\ HookCalls(i)[j].arg = hooks[j]
         /\ HookCalls(i)[j].seen = results[i]

\* C5: a column that is not in the descriptor of the sample type never makes Map
\* fail: when Map fails to set a field, the column it stopped at is in the descriptor.
C5_UnknownColumnIgnored ==
  MapReturned /\ ret.err = ErrSetField =>
    columns[trace[Len(trace)].arg] \in DOMAIN columnsToFields[o.typ]

\* C6: a null column value raises no error (Map never stops at a null slot), leaves
\* its field at the zero value, and does not keep the other columns of the row from
\* being applied (what a field receives depends on its own slot alone).
C6_NullLeavesZero ==
  LET rows == ScannedRows
  IN  /\ \A n \in 1..Len(trace) :
           trace[n].ev = "Set" /\ trace[n].arg > 0 => rows[trace[n].row][trace[n].arg] # Nil
      /\ \A i \in 1..Len(results), k \in 1..Len(columns) :
           LET name == Lookup(columnsToFields[o.typ], columns[k])
           IN  name # "" =>
                 /\ rows[i][k] = Nil =>
                      results[i][name] = Zero(FieldByName(o.typ, name).kind)
                 /\ \A i2 \in 1..Len(results) :
                      rows[i2][k] = rows[i][k] => results[i2][name] = results[i][name]

\* C6 witness: a materialized row with a null slot for a descriptor column, and a
\* second slot whose value reached its field.
C6_Witness ==
  \E i \in 1..Len(results), k, k2 \in 1..Len(columns) :
    LET name == Lookup(columnsToFields[o.typ], columns[k])
        name2 == Lookup(columnsToFields[o.typ], columns[k2])
    IN  /\ name # "" /\ name2 # ""
        /\ k < k2
        /\ ScannedRows[i][k] = Nil
        /\ results[i][name] = Zero(FieldByName(o.typ, name).kind)
        /\ results[i][name2] # Zero(FieldByName(o.typ, name2).kind)

-----------------------------------------------------------------------------
(* Properties of the descriptor cache, checked under Spec *)

\* the annotation labels the fields of t declare under label, and the fields declaring one
LabelsOf(t, label) == {TagGet(Fields(t)[i].tags, label) : i \in 1..Len(Fields(t))} \ {""}
LabelledFields(t, label) ==
  {Fields(t)[i].name : i \in {j \in 1..Len(Fields(t)) : TagGet(Fields(t)[j].tags, label) # ""}}

\* C7: ColumnsFor returns exactly the annotation labels declared on the type's
\* annotated fields and FieldsFor exactly those fields' names, each once; a field
\* without an annotation is in neither.  The annotation is read under the label the
\* type's descriptor was built from.
C7_ColumnsAndFields ==
  /\ last.op = "ColumnsFor" /\ last.err = "nil" =>
       /\ BagToSet(last.out) = LabelsOf(last.obj.typ, builtTag[last.obj.typ])
       /\ \A c \in BagToSet(last.out) : CopiesIn(c, last.out) = 1
  /\ last.op = "FieldsFor" /\ last.err = "nil" =>
       /\ BagToSet(last.out) = LabelledFields(last.obj.typ, builtTag[last.obj.typ])
       /\ \A f \in BagToSet(last.out) : CopiesIn(f, last.out) = 1

\* C7 witness: FieldsFor on the type with an unannotated field has returned the three
\* annotated fields.
C7_Witness ==
  /\ last.op = "FieldsFor" /\ last.err = "nil"
  /\ last.obj.typ = "person"
  /\ BagToSet(last.out) = {"Name", "Score", "secret"}

\* C8: for every cached type the field->column map and the column->field map are
\* exact inverses, also when two fields declare the same label.
C8_MapsAreInverses ==
  \A t \in DOMAIN typeCache :
    \A f \in FieldNames(t), c \in DOMAIN columnsToFields[t] \cup
                                  {fieldsToColumns[t][g] : g \in DOMAIN fieldsToColumns[t]} :
      (f \in DOMAIN fieldsToColumns[t] /\ fieldsToColumns[t][f] = c)
        <=> (c \in DOMAIN columnsToFields[t] /\ columnsToFields[t][c] = f)

DiscoveryOps == {"DiscoverType", "ColumnsFor", "FieldsFor", "FieldValueMapFor"}

\* C9: a discovery call leaves the descriptor of every type already cached as it was,
\* adds at most the type of its argument to the cached types, and changes nothing at
\* all when that type is cached already.
C9_DiscoveryIdempotent ==
  [][last'.op \in DiscoveryOps =>
       /\ \A t \in DOMAIN typeCache :
            /\ t \in DOMAIN typeCache'
            /\ fieldsToColumns'[t] = fieldsToColumns[t]
            /\ columnsToFields'[t] = columnsToFields[t]
       /\ DOMAIN typeCache' \subseteq DOMAIN typeCache \cup {last'.obj.typ}
       /\ last'.obj.typ \in DOMAIN typeCache =>
            /\ typeCache' = typeCache
            /\ fieldsToColumns' = fieldsToColumns
            /\ columnsToFields' = columnsToFields]_vars

\* C9 witness: a discovery call has succeeded for a type whose descriptor was built
\* under another label than the one now configured, so the type was cached before
\* the call and a rebuild would have changed it.
C9_Witness ==
  /\ last.op \in DiscoveryOps /\ last.err = "nil"
  /\ builtTag[last.obj.typ] = "db"
  /\ structTag = "json"

\* the argument's type, after at most one pointer dereference, is not a struct
NotAStructure(obj) == obj.ptr > 1 \/ obj.typ \notin StructTypes

\* C10: DiscoverType, ColumnsFor, FieldsFor, FieldValueMapFor and Register, given a
\* value that is not a struct after at most one dereference, return the NotAStructure
\* error and leave the cache unchanged.
C10_NotAStructure ==
  [][last'.op \in DiscoveryOps \cup {"Register"} /\ NotAStructure(last'.obj) =>
       /\ last'.err = ErrNotStruct
       /\ typeCache' = typeCache
       /\ fieldsToColumns' = fieldsToColumns
       /\ columnsToFields' = columnsToFields]_vars

\* C10 witness: Register has refused a pointer to a pointer to a struct, with types
\* in the cache.
C10_Witness ==
  /\ last.op = "Register" /\ last.err = ErrNotStruct
  /\ last.obj = [typ |-> "faker", ptr |-> 2]
  /\ DOMAIN typeCache # {}

\* C16: the set of cached types only grows: a type in typeCache stays there across
\* every call, and every type in typeCache has an entry in fieldsToColumns and in
\* columnsToFields.
C16_CacheGrows ==
  [][/\ DOMAIN typeCache \subseteq DOMAIN typeCache'
     /\ \A t \in DOMAIN typeCache' :
          t \in DOMAIN fieldsToColumns' /\ t \in DOMAIN columnsToFields']_vars

\* C16 witness: Register has rebuilt the descriptor of a type while other types are
\* cached.
C16_Witness ==
  /\ last.op = "Register" /\ last.err = ErrNil
  /\ builtTag[last.obj.typ] = "json"
  /\ DOMAIN typeCache = StructTypes

\* C17: the annotation label defaults to "db": a type that a call newly caches gets
\* the descriptor of its "db" annotations when the configured label is empty, and of
\* the configured label otherwise; after SetStructTag(t) with t not empty,
\* GetStructTag returns t.
C17_DefaultLabel ==
  [][/\ \A t \in DOMAIN typeCache' \ DOMAIN typeCache :
          LET label == IF structTag = "" THEN "db" ELSE structTag
          IN  /\ DOMAIN columnsToFields'[t] = LabelsOf(t, label)
              /\ DOMAIN fieldsToColumns'[t] = LabelledFields(t, label)
     /\ last'.op = "SetStructTag" /\ last'.out[1] # "" =>
          GetStructTag(structTag') = last'.out[1]]_vars

-----------------------------------------------------------------------------
(* Cartographer.Sync, step by step.  Sync works on the caller's struct in  *)
(* place: record is the struct o points to.                                *)

ErrNotPointer == "Sync expected a pointer to be passed for manipulation."

\* the zero value the data source may hold in a column, not null
ZeroSlot(column) ==
  CASE column \in {"id", "amount", "ident", "credit", "total", "secret"} -> Val("int64", 0)
    [] column = "score"  -> Val("float64", 0)
    [] column = "active" -> Val("bool", 0)
    [] column = "owner"  -> Val("struct", 0)
    [] OTHER             -> Val("string", 0)

\* what rows.Scan may leave in the buffer of a Sync call: the values of SlotValues
\* that are no byte slices, and the zero value
SyncSlotValues(column) ==
  {v \in SlotValues(column) : v.t # "[]uint8"} \cup {ZeroSlot(column)}

SyncRows(cols) ==
  {r \in [1..Len(cols) -> UNION {SyncSlotValues(cols[i]) : i \in 1..Len(cols)}] :
     \A i \in 1..Len(cols) : r[i] \in SyncSlotValues(cols[i])}

\* the entry of Sync without the test `reflect.Ptr != object.Kind()`, as in the
\* earlier revision, which dereferences o when it is a pointer and goes on either way
SyncEnterNoPointerTest ==
  /\ pc = "idle"
  /\ procs = << >>
  /\ \E obj \in Objects, n \in 0..MaxHooks :
       \E rec \in CallerRecords(obj), d \in {DiscoverType(obj, Cache, structTag)} :
         /\ o' = obj
         /\ hooks' = [i \in 1..n |-> i]
         /\ record' = rec
         /\ trace' = Append(trace, Event("Sync", 0, 0, rec))
         /\ setCache(d.cache)
         /\ IF d.err # ErrNil
              THEN ret' = Return(<< >>, d.err) /\ pc' = "done"
              ELSE ret' = ret /\ pc' = "sync_columns"
  /\ UNCHANGED <<structTag, last, columns, rowNo, values, replica, hookIdx, results, procs>>

\* Sync is entered: DiscoverType, and the test that o is a pointer
SyncEnter ==
  /\ pc = "idle"
  /\ procs = << >>
  /\ \E obj \in Objects, n \in 0..MaxHooks :
       \E rec \in CallerRecords(obj), d \in {DiscoverType(obj, Cache, structTag)} :
         /\ o' = obj
         /\ hooks' = [i \in 1..n |-> i]
         /\ record' = rec
         /\ trace' = Append(trace, Event("Sync", 0, 0, rec))
         /\ setCache(d.cache)
         /\ IF d.err # ErrNil
              THEN ret' = Return(<< >>, d.err) /\ pc' = "done"
              ELSE IF obj.ptr = 0
                     THEN ret' = Return(<< >>, ErrNotPointer) /\ pc' = "done"
                     ELSE ret' = ret /\ pc' = "sync_columns"
  /\ UNCHANGED <<structTag, last, columns, rowNo, values, replica, hookIdx, results, procs>>

\* rows.Columns()
SyncColumns ==
  /\ pc = "sync_columns"
  /\ \/ /\ ret' = Return(<< >>, ErrColumns)
        /\ pc' = "done"
        /\ UNCHANGED columns
     \/ /\ \E cols \in ColumnLists(o) : columns' = cols
        /\ pc' = "sync_next"
        /\ UNCHANGED ret
  /\ UNCHANGED <<cacheVars, last, o, hooks, rowNo, values, replica, hookIdx, results, trace,
                 record, procs>>

\* the loop condition rows.Next(), and the return after the loop
SyncNext ==
  /\ pc = "sync_next"
  /\ \/ /\ rowNo < MaxRows
        /\ rowNo' = rowNo + 1
        /\ pc' = "sync_scan"
        /\ UNCHANGED ret
     \/ /\ ret' = Return(<< >>, ErrNil)
        /\ pc' = "done"
        /\ UNCHANGED rowNo
  /\ UNCHANGED <<cacheVars, last, o, hooks, columns, values, replica, hookIdx, results, trace,
                 record, procs>>

\* populatedRowValues
SyncScan ==
  /\ pc = "sync_scan"
  /\ \/ /\ \E row \in SyncRows(columns) : values' = row
        /\ pc' = "sync_set"
        /\ UNCHANGED ret
     \/ /\ ret' = Return(<< >>, ErrScan)
        /\ pc' = "done"
        /\ UNCHANGED values
  /\ UNCHANGED <<cacheVars, last, o, hooks, columns, rowNo, replica, hookIdx, results, trace,
                 record, procs>>

\* the loop over the row buffer: every value is set on the caller's struct
SyncSetFields ==
  /\ pc = "sync_set"
  /\ \E r \in {setFields(Deref(o).typ, columnsToFields[Deref(o).typ],
                         columns, values, 1, record)} :
      /\ record' = r.element
      /\ CASE r.status = "ok" ->
                /\ pc' = IF Len(hooks) = 0 THEN "sync_next" ELSE "sync_hook"
                /\ hookIdx' = 1
                /\ UNCHANGED ret
           [] r.status = "err" ->
                /\ ret' = Return(<< >>, ErrSetField)
                /\ pc' = "done"
                /\ UNCHANGED hookIdx
           [] OTHER ->
                /\ ret' = Panic
                /\ pc' = "done"
                /\ UNCHANGED hookIdx
  /\ UNCHANGED <<cacheVars, last, o, hooks, columns, rowNo, values, replica, results, trace,
                 procs>>

\* one turn of the loop over the hooks: the hook is given o and may fail
SyncHook ==
  /\ pc = "sync_hook"
  /\ \/ /\ hookIdx' = hookIdx + 1
        /\ pc' = IF hookIdx = Len(hooks) THEN "sync_next" ELSE "sync_hook"
        /\ UNCHANGED ret
     \/ /\ ret' = Return(<< >>, ErrHook)
        /\ pc' = "done"
        /\ UNCHANGED hookIdx
  /\ UNCHANGED <<cacheVars, last, o, hooks, columns, rowNo, values, replica, results, trace,
                 record, procs>>

NextSync ==
  \/ SyncEnter
  \/ SyncColumns
  \/ SyncNext
  \/ SyncScan
  \/ SyncSetFields
  \/ SyncHook

SpecSync == Init /\ [][NextSync]_vars

-----------------------------------------------------------------------------
(* Properties of Sync, checked under SpecSync *)

\* the error an earlier revision of Sync returns for a row count other than one
ErrRowCount == "Sync expected one and only one result to be returned from Map."

SyncReturned == pc = "done" /\ ret.returned /\ trace # << >> /\ trace[1].ev = "Sync"

\* the caller's struct as it was when Sync was entered
Before == trace[1].seen

\* C11: when the cursor of a Sync call is exhausted after zero rows, or after more
\* than one row, Sync returns the UnexpectedRowCount error and the caller's record is
\* as it was before the call.
C11_SyncRowCount ==
  SyncReturned /\ ret.err \in {ErrNil, ErrRowCount} /\ rowNo # 1 =>
    /\ ret.err = ErrRowCount
    /\ record = Before

\* C12: after a successful Sync over a one-row cursor, an annotated field whose column
\* the row carries holds the row's coerced value when that value differs from the
\* field's value before the call and is not the zero value of its kind; every other
\* field, annotated or not, is as it was before the call.
C12_SyncWritesComputedFields ==
  SyncReturned /\ ret.err = ErrNil /\ rowNo = 1 =>
    \A f \in FieldNames(o.typ) :
      LET kind == FieldByName(o.typ, f).kind
          col == Lookup(fieldsToColumns[o.typ], f)
          slots == {k \in 1..Len(columns) : col # "" /\ columns[k] = col}
      IN  /\ slots = {} => record[f] = Before[f]
          /\ \A k \in slots :
               IF /\ values[k] # Nil
                  /\ Coercible(kind, values[k])
                  /\ Coerced(kind, values[k]) # Before[f]
                  /\ Coerced(kind, values[k]) # Zero(kind)
                 THEN record[f] = Coerced(kind, values[k])
                 ELSE record[f] = Before[f]

\* C13: whenever Sync returns an error, every field of the caller's record has the
\* value it had before the call.
C13_SyncAllOrNothing ==
  SyncReturned /\ ret.err # ErrNil => record = Before

\* C23: Sync given a struct value instead of a pointer returns an error whatever the
\* cursor holds: the call is over with an error before the cursor is read (no column
\* list, no row), it never succeeds, and the caller's struct is as it was.
C23_SyncNeedsPointer ==
  trace # << >> /\ trace[1].ev = "Sync" /\ o.ptr = 0 =>
    /\ pc = "done"
    /\ ret.returned /\ ret.err # ErrNil
    /\ o.typ \in StructTypes => ret.err = ErrNotPointer
    /\ columns = << >> /\ rowNo = 0 /\ values = << >>
    /\ record = Before

\* C23 witness: Sync has refused a struct value whose fields the caller had set.
C23_Witness ==
  /\ trace # << >> /\ trace[1].ev = "Sync"
  /\ o = [typ |-> "faker", ptr |-> 0]
  /\ record # ZeroStruct("faker")
  /\ pc = "done" /\ ret.returned /\ ret.err = ErrNotPointer

-----------------------------------------------------------------------------
(* Map and Sync side by side: one call of either on a fresh Cartographer *)

NextRows ==
  \/ NextMap
  \/ NextSync

SpecRows == Init /\ [][NextRows]_vars

\* the slots of row that hold a value for a column whose field cannot be set because
\* it is unexported
Unsettable(row) ==
  {k \in 1..Len(row) :
     LET name == Lookup(columnsToFields[Deref(o).typ], columns[k])
     IN  /\ row[k] # Nil
         /\ name \in FieldNames(Deref(o).typ)
         /\ ~FieldByName(Deref(o).typ, name).exported}

\* row has such a slot, and every slot before the first of them is null
UnsettableFirst(row) ==
  \E k \in Unsettable(row) : \A j \in 1..(k - 1) : row[j] = Nil

\* C18: a row with a non-null value for a column whose annotated field is unexported
\* is never passed over in silence.  When Map has run its loop over such a row (the
\* row is still in the buffer values), the loop stopped at or before the first such
\* slot, the call is over and has not
\* succeeded, and if the loop stopped at such a slot Map returned the "Failed to set
\* field" error.  When Sync has run its loop over such a row, the call is over with
\* that error or a panic, and with that error when nothing but nulls precede the slot.
C18_UnsettableFieldFails ==
  LET bad == Unsettable(values)
      at == trace[Len(trace)].arg
  IN  /\ trace # << >> /\ trace[Len(trace)].ev = "Set" /\ bad # {} =>
           /\ pc = "done"
           /\ ret.panic \/ ret.err # ErrNil
           /\ at > 0
           /\ \A k \in bad : at <= k
           /\ at \in bad => ret.returned /\ ret.err = ErrSetField
      /\ trace # << >> /\ trace[1].ev = "Sync" /\ pc # "sync_set" /\ bad # {} =>
           /\ pc = "done"
           /\ ret.panic \/ ret.err = ErrSetField
           /\ UnsettableFirst(values) => ret.returned /\ ret.err = ErrSetField

\* C18 witness: Map has applied the first slot of a row to its field, met a value for
\* an unexported field in the second slot, and returned the error.
C18_Witness ==
  /\ pc = "done" /\ ret.returned /\ ret.err = ErrSetField
  /\ trace[Len(trace)].ev = "Set" /\ trace[Len(trace)].arg = 2
  /\ 2 \in Unsettable(values)
  /\ values[1] # Nil
  /\ replica # ZeroStruct(o.typ)

-----------------------------------------------------------------------------
(* Cartographer.ModifiedColumnsValuesMapFor *)

\* the structs a caller may pass: every field at its zero value or set by the caller
Records(obj) ==
  IF obj.typ \in StructTypes
    THEN LET held(n) == {Zero(FieldByName(obj.typ, n).kind),
                         CallerValue(FieldByName(obj.typ, n).kind)}
         IN  {r \in [FieldNames(obj.typ) -> UNION {held(n) : n \in FieldNames(obj.typ)}] :
                \A n \in FieldNames(obj.typ) : r[n] \in held(n)}
    ELSE {EmptyMap}

\* the snapshots a caller may pass as i: what FieldValueMapFor returned for an earlier
\* state of the struct, with any of its entries left out
Snapshots(obj) ==
  UNION {{[n \in keys |-> r[n]] : keys \in SUBSET (DOMAIN r)} : r \in Records(obj)}

\* the loop of ModifiedColumnsValuesMapFor over the snapshot n of the struct: every
\* field whose value is not the one i holds for it (a key i lacks reads as nil) is
\* stored under its column.  Fields that share a column are stored one over the
\* other in the order of the iteration over n, which Go does not fix: the results
\* the loop may leave.
modifiedColumns(n, i, f2c) ==
  LET changed == {key \in DOMAIN n : key \notin DOMAIN i \/ n[key] # i[key]}
      cols == {f2c[key] : key \in changed}
  IN  {m \in [cols -> {n[key] : key \in changed}] :
         \A c \in cols : \E key \in changed : f2c[key] = c /\ m[c] = n[key]}

\* one call on a fresh Cartographer
CallModifiedColumnsValuesMapFor ==
  /\ pc = "idle"
  /\ procs = << >>
  /\ last = NoCall
  /\ \E obj \in Objects :
       \E item \in Records(obj), i \in Snapshots(obj), d \in {DiscoverType(obj, Cache, structTag)} :
         /\ setCache(d.cache)
         /\ record' = item
         /\ IF d.err # ErrNil
              THEN last' = Called("ModifiedColumnsValuesMapFor", obj, d.err,
                                  [snapshot |-> i, values |-> EmptyMap], FALSE)
              ELSE \E n \in {fieldValues(d.typ.typ, item, d.cache.f2c[d.typ.typ])} :
                     IF n.panic
                       THEN last' = Called("ModifiedColumnsValuesMapFor", obj, ErrNil,
                                           [snapshot |-> i, values |-> EmptyMap], TRUE)
                       ELSE \E m \in modifiedColumns(n.values, i, d.cache.f2c[d.typ.typ]) :
                              last' = Called("ModifiedColumnsValuesMapFor", obj, ErrNil,
                                             [snapshot |-> i, values |-> m], FALSE)
  /\ UNCHANGED <<structTag, pc, o, hooks, columns, rowNo, values, replica, hookIdx, results,
                 ret, trace, procs>>

NextDiff == CallModifiedColumnsValuesMapFor

SpecDiff == Init /\ [][NextDiff]_vars

\* C14: ModifiedColumnsValuesMapFor returns exactly one entry per descriptor field
\* whose current value differs from the snapshot's entry for it (a field the snapshot
\* lacks counts as changed), under the field's column and holding the current value,
\* and no entry for an unchanged field.
C14_ModifiedColumns ==
  last.op = "ModifiedColumnsValuesMapFor" /\ last.err = ErrNil /\ ~last.panic =>
    LET f2c == fieldsToColumns[Deref(last.obj).typ]
        i == last.out.snapshot
        m == last.out.values
        changed == {f \in DOMAIN f2c : f \notin DOMAIN i \/ i[f] # record[f]}
    IN  /\ Cardinality(DOMAIN m) = Cardinality(changed)
        /\ \A f \in changed : f2c[f] \in DOMAIN m /\ m[f2c[f]] = record[f]
        /\ \A c \in DOMAIN m : \E f \in changed : f2c[f] = c

-----------------------------------------------------------------------------
(* Concurrent callers.  The Cartographer holds no lock: goroutines calling *)
(* ColumnsFor or FieldsFor on one Cartographer interleave statement by     *)
(* statement.  procs[p] is goroutine p: its position, the call it makes,   *)
(* its argument, DiscoverType's loop counter i, whether it found the type  *)
(* cached, and what its call returned.                                     *)

Proc(pos, op, obj, i, hit, out, err) ==
  [pc |-> pos, op |-> op, obj |-> obj, i |-> i, hit |-> hit, out |-> out, err |-> err]

\* the goroutines are started, each with a call and an argument of its own
ConcStart ==
  /\ pc = "idle"
  /\ procs = << >>
  /\ last = NoCall
  /\ \E ops \in [1..MaxProcs -> {"ColumnsFor", "FieldsFor"}], objs \in [1..MaxProcs -> Objects] :
       procs' = [p \in 1..MaxProcs |-> Proc("type", ops[p], objs[p], 0, FALSE, EmptyBag, ErrNil)]
  /\ UNCHANGED <<cacheVars, last, pc, o, hooks, columns, rowNo, values, replica, hookIdx,
                 results, ret, trace, record>>

ConcUnchanged ==
  UNCHANGED <<structTag, last, pc, o, hooks, columns, rowNo, values, replica, hookIdx,
              results, ret, trace, record>>

\* the type a goroutine works on
ProcType(p) == Deref(procs[p].obj).typ

\* the inner map of a type, nil (read as empty) while the outer map has no entry for it
Inner(outer, typ) == IF typ \in DOMAIN outer THEN outer[typ] ELSE EmptyMap

\* the maps the next statement of a goroutine reads and writes: the three outer maps,
\* and the inner maps of its type
Reads(p) ==
  CASE procs[p].pc = "check" -> {<<"typeCache", "">>}
    [] procs[p].pc = "field" -> {<<"columnsToFields", "">>, <<"fieldsToColumns", "">>}
    [] procs[p].pc = "range" ->
         IF procs[p].op = "ColumnsFor"
           THEN {<<"columnsToFields", "">>, <<"columnsToFields", ProcType(p)>>}
           ELSE {<<"fieldsToColumns", "">>, <<"fieldsToColumns", ProcType(p)>>}
    [] OTHER -> {}

Writes(p) ==
  CASE procs[p].pc = "makeFields"  -> {<<"fieldsToColumns", "">>}
    [] procs[p].pc = "makeColumns" -> {<<"columnsToFields", "">>}
    [] procs[p].pc = "mark"        -> {<<"typeCache", "">>}
    [] procs[p].pc = "field" ->
         IF TagGet(Fields(ProcType(p))[procs[p].i].tags, structTag) # ""
           THEN {<<"columnsToFields", ProcType(p)>>, <<"fieldsToColumns", ProcType(p)>>}
           ELSE {}
    [] OTHER -> {}

\* two goroutines are about to access one map, one of them writing: a data race
Race(p, q) ==
  \/ Writes(p) \cap (Reads(q) \cup Writes(q)) # {}
  \/ Writes(q) \cap Reads(p) # {}

\* DiscoverType: reflect.TypeOf, Elem, and the test for a struct
ConcType ==
  \E p \in DOMAIN procs :
    /\ procs[p].pc = "type"
    /\ procs' = [procs EXCEPT ![p] =
                   IF IsStruct(Deref(procs[p].obj))
                     THEN [@ EXCEPT !.pc = "check"]
                     ELSE [@ EXCEPT !.pc = "done", !.err = ErrNotStruct]]
    /\ UNCHANGED cacheVars
    /\ ConcUnchanged

\* DiscoverType: if _, cached := self.typeCache[typ]; !cached
ConcCheck ==
  \E p \in DOMAIN procs :
    /\ procs[p].pc = "check"
    /\ procs' = [procs EXCEPT ![p] =
                   IF ProcType(p) \in DOMAIN typeCache
                     THEN [@ EXCEPT !.pc = "range", !.hit = TRUE]
                     ELSE [@ EXCEPT !.pc = "makeFields"]]
    /\ UNCHANGED cacheVars
    /\ ConcUnchanged

\* DiscoverType: self.fieldsToColumns[typ] = make(map[string]string)
ConcMakeFields ==
  \E p \in DOMAIN procs :
    /\ procs[p].pc = "makeFields"
    /\ fieldsToColumns' = Put(fieldsToColumns, ProcType(p), EmptyMap)
    /\ procs' = [procs EXCEPT ![p].pc = "makeColumns"]
    /\ UNCHANGED <<columnsToFields, typeCache, builtTag>>
    /\ ConcUnchanged

\* DiscoverType: self.columnsToFields[typ] = make(map[string]string)
ConcMakeColumns ==
  \E p \in DOMAIN procs :
    /\ procs[p].pc = "makeColumns"
    /\ columnsToFields' = Put(columnsToFields, ProcType(p), EmptyMap)
    /\ procs' = [procs EXCEPT ![p].pc = "mark"]
    /\ UNCHANGED <<fieldsToColumns, typeCache, builtTag>>
    /\ ConcUnchanged

\* DiscoverType: self.typeCache[typ] = true
ConcMark ==
  \E p \in DOMAIN procs :
    /\ procs[p].pc = "mark"
    /\ typeCache' = Put(typeCache, ProcType(p), TRUE)
    /\ builtTag' = Put(builtTag, ProcType(p), structTag)
    /\ procs' = [procs EXCEPT ![p] =
                   [@ EXCEPT !.pc = IF Len(Fields(ProcType(p))) = 0 THEN "range" ELSE "field",
                             !.i = 1]]
    /\ UNCHANGED <<fieldsToColumns, columnsToFields>>
    /\ ConcUnchanged

\* DiscoverType: one turn of the loop over the fields
ConcField ==
  \E p \in DOMAIN procs :
    /\ procs[p].pc = "field"
    /\ LET typ == ProcType(p)
           name == Fields(typ)[procs[p].i].name
           column == TagGet(Fields(typ)[procs[p].i].tags, structTag)
       IN  IF column # ""
             THEN /\ columnsToFields' =
                       Put(columnsToFields, typ, Put(Inner(columnsToFields, typ), column, name))
                  /\ fieldsToColumns' =
                       Put(fieldsToColumns, typ, Put(Inner(fieldsToColumns, typ), name, column))
             ELSE UNCHANGED <<fieldsToColumns, columnsToFields>>
    /\ procs' = [procs EXCEPT ![p] =
                   [@ EXCEPT !.pc = IF procs[p].i = Len(Fields(ProcType(p))) THEN "range" ELSE "field",
                             !.i = procs[p].i + 1]]
    /\ UNCHANGED <<typeCache, builtTag>>
    /\ ConcUnchanged

\* ColumnsFor, FieldsFor: the loop over the keys of the type's map, and the return
ConcRange ==
  \E p \in DOMAIN procs :
    /\ procs[p].pc = "range"
    /\ procs' = [procs EXCEPT ![p] =
                   [@ EXCEPT !.pc = "done",
                             !.out = IF procs[p].op = "ColumnsFor"
                                       THEN Keys(Inner(columnsToFields, ProcType(p)))
                                       ELSE Keys(Inner(fieldsToColumns, ProcType(p)))]]
    /\ UNCHANGED cacheVars
    /\ ConcUnchanged

\* a data race on a map: besides the interleavings above, the Go runtime may stop the
\* process with "fatal error: concurrent map writes" (or "concurrent map read and map
\* write")
ConcFatal ==
  /\ \E p, q \in DOMAIN procs : p # q /\ Race(p, q)
  /\ procs' = [p \in DOMAIN procs |-> [procs[p] EXCEPT !.pc = "fatal"]]
  /\ UNCHANGED cacheVars
  /\ ConcUnchanged

NextConc ==
  \/ ConcStart
  \/ ConcType
  \/ ConcCheck
  \/ ConcMakeFields
  \/ ConcMakeColumns
  \/ ConcMark
  \/ ConcField
  \/ ConcRange
  \/ ConcFatal

SpecConc == Init /\ [][NextConc]_vars

\* C15: under concurrent discovery the process is never stopped by a data race, no
\* caller that finds the type marked present reads maps that are not completely
\* filled, and every ColumnsFor / FieldsFor call returns all the annotated columns /
\* fields of its type.
C15_ConcurrentDiscovery ==
  \A p \in DOMAIN procs :
    /\ procs[p].pc # "fatal"
    /\ procs[p].pc = "range" /\ procs[p].hit =>
         /\ DOMAIN Inner(columnsToFields, ProcType(p)) = LabelsOf(ProcType(p), structTag)
         /\ DOMAIN Inner(fieldsToColumns, ProcType(p)) = LabelledFields(ProcType(p), structTag)
    /\ procs[p].pc = "done" /\ procs[p].err = ErrNil =>
         BagToSet(procs[p].out) = IF procs[p].op = "ColumnsFor"
                                    THEN LabelsOf(ProcType(p), structTag)
                                    ELSE LabelledFields(ProcType(p), structTag)

-----------------------------------------------------------------------------
(* setFieldValue on its own: one field of a fresh struct, one source value *)

\* the dynamic types a database driver may hand over in a row buffer
SourceTypes ==
  {"int", "int8", "int16", "int32", "int64", "float32", "float64", "bool", "string",
   "[]uint8", "struct"}

\* the source values: nil, and for every type a value that reads as a number when it
\* is text (1) and one that does not (12)
SourceValues ==
  {Nil} \cup {Val(t, v) : t \in SourceTypes \ {"bool"}, v \in {1, 12}} \cup {Val("bool", 1)}

\* setFieldValue(field, value) for field i of a zero struct of type t
CallSetFieldValue ==
  /\ pc = "idle"
  /\ procs = << >>
  /\ \E t \in StructTypes :
       \E i \in 1..Len(Fields(t)), value \in SourceValues :
         \E r \in {setFieldValue(ZeroStruct(t), Fields(t)[i], value)} :
           /\ replica' = r.element
           /\ last' = Called("setFieldValue", [typ |-> t, ptr |-> 1],
                             IF r.status = "err" THEN ErrSetField ELSE ErrNil,
                             <<i, value>>, r.status = "panic")
  /\ UNCHANGED <<cacheVars, pc, o, hooks, columns, rowNo, values, hookIdx, results, ret,
                 trace, record, procs>>

NextCoerce == CallSetFieldValue

SpecCoerce == Init /\ [][NextCoerce]_vars

\* the native signed integer types of at most 64 bits
IntegerTypes == {"int", "int8", "int16", "int32", "int64"}

\* C19: for an integer target field, a source value of any native integer width up
\* to 64 bits (8, 16, 32, 64 bits, and int) is accepted, and the field then holds a
\* value equal to the source value.
C19_IntegerWidths ==
  last.op = "setFieldValue" =>
    LET field == Fields(last.obj.typ)[last.out[1]]
        value == last.out[2]
    IN  field.kind \in {"Int", "Int64"} /\ field.exported /\ value.t \in IntegerTypes =>
          /\ ~last.panic
          /\ last.err = ErrNil
          /\ replica[field.name].v = value.v

\* C20: a byte or text value that is no base-10 floating-point literal, in a column
\* that belongs to a floating-point field, makes Map fail: no instance is ever built
\* from a row with such a value (its field silently left at, or set to, zero).
C20_MalformedFloatFails ==
  LET rows == ScannedRows
  IN  \A i \in 1..Len(results), k \in 1..Len(columns) :
        LET name == Lookup(columnsToFields[o.typ], columns[k])
        IN  /\ name \in FieldNames(o.typ)
            /\ FieldByName(o.typ, name).kind = "Float64"
            /\ rows[i][k].t \in {"string", "[]uint8"}
            => IsFloatLiteral(rows[i][k].v)

\* C21: a source value of the wrong kind for its target field is an error returned to
\* the caller: a source that is no boolean for a boolean field, no integer for an
\* integer field, or neither a float nor bytes for a floating-point field makes
\* setFieldValue (and with it Map and Sync) return an error; it neither panics nor
\* succeeds.
C21_MismatchIsError ==
  last.op = "setFieldValue" =>
    LET field == Fields(last.obj.typ)[last.out[1]]
        value == last.out[2]
        mismatch ==
          \/ field.kind = "Bool" /\ value.t # "bool"
          \/ field.kind \in {"Int", "Int64"} /\ value.t \notin IntegerTypes
          \/ field.kind = "Float64" /\ value.t \notin {"float32", "float64", "[]uint8"}
    IN  field.exported /\ value # Nil /\ mismatch =>
          /\ ~last.panic
          /\ last.err # ErrNil

-----------------------------------------------------------------------------
(* Further properties of the cache API, checked under Spec *)

C22_FieldValueSnapshot ==
  last.op = "FieldValueMapFor" /\ last.err = ErrNil =>
    LET t == last.obj.typ
    IN  /\ ~last.panic
        /\ DOMAIN last.out.values = DOMAIN fieldsToColumns[t]
        /\ DOMAIN last.out.values \subseteq LabelledFields(t, builtTag[t])
        /\ \A f \in DOMAIN last.out.values : last.out.values[f] = last.out.item[f]

-----------------------------------------------------------------------------
(* The cursor protocol of Map, checked under SpecMap *)

\* the calls Map has made on the cursor, in the order it made them
CursorCalls ==
  SelectSeq(trace, LAMBDA e : e.ev \in {"Columns", "Next", "NextEnd", "Scan", "ScanErr"})

\* Columns is called once, before anything else
ColumnsOnceFirst ==
  trace # << >> =>
    /\ trace[1].ev = "Columns"
    /\ \A n \in 2..Len(trace) : trace[n].ev # "Columns"

\* Scan is called once after each Next that returned true, and only then
ScanAfterEachNext ==
  LET calls == CursorCalls
  IN  \A n \in 1..Len(calls) :
        /\ calls[n].ev = "Next" /\ n < Len(calls) => calls[n + 1].ev \in {"Scan", "ScanErr"}
        /\ calls[n].ev \in {"Scan", "ScanErr"} => n > 1 /\ calls[n - 1].ev = "Next"

\* nothing is called after Next returned false or after an error
NothingAfterTheEnd ==
  \A n \in 1..Len(trace) :
    \/ trace[n].ev \in {"NextEnd", "ScanErr", "HookErr"}
    \/ trace[n].ev = "Set" /\ trace[n].arg > 0
    \/ trace[n].ev = "Columns" /\ MapReturned /\ ret.err = ErrColumns
    => n = Len(trace)

\* the descriptor of the sample type is resolved once in the call
ResolvedOnce ==
  LET resolved == {n \in 1..Len(trace) : trace[n].ev = "DiscoverType"}
  IN  /\ Cardinality(resolved) <= 1
      /\ MapSucceeded => Cardinality(resolved) = 1

\* C24: within one Map call Columns is called exactly once and before the first Next;
\* Scan is called exactly once after each Next that returned true and never after one
\* that returned false; after Next returned false or an error occurred no further
\* cursor operation is issued; and the descriptor of the sample type is resolved once
\* per call, not once per row.
C24_CursorProtocol ==
  /\ ColumnsOnceFirst
  /\ ScanAfterEachNext
  /\ NothingAfterTheEnd
  /\ ResolvedOnce

\* C26: Map on a sample that is not a struct returns an error whatever the cursor
\* holds, also when the cursor yields no row: it never returns successfully.
C26_MapNeedsStruct ==
  MapReturned /\ NotAStructure(o) => ret.err # ErrNil

====
